---- MODULE Spec2Model ----
(***************************************************************************)
(* The authentication / authorization gate of src/main.py: register,      *)
(* login, the bearer-token dependency get_current_user, the protected     *)
(* handlers (publish_post, delete_post, update_app_settings) and the      *)
(* app-settings singleton (get_app_settings), over the Firestore          *)
(* collections "users", "posts" and the document app_settings/main.       *)
(*                                                                         *)
(* FastAPI runs `def` handlers in a thread pool, so two requests          *)
(* interleave between their store operations.  A handler with one store   *)
(* operation is one action; register (query, then add) and                *)
(* get_app_settings (get, then the rest) are one action per store         *)
(* operation, run by a worker of Procs.  The clock counts ticks of 30     *)
(* days, the lifetime create_access_token gives a token.                  *)
(***************************************************************************)
EXTENDS Integers, Sequences, FiniteSets, TLC

\* ------------------------------------------------------------------ bounds
MaxUsers == 2        \* documents the "users" collection may hold
MaxPosts == 1        \* documents the "posts" collection may hold
MaxTokens == 1       \* distinct tokens login may have issued
MaxTime == 2         \* the clock stops here
NumProcs == 2        \* worker threads
NumSalts == 1        \* bcrypt salts

\* timedelta(days=30), in clock ticks of 30 days.
TokenLifetime == 1

Procs == 1..NumProcs
DocIds == 1..MaxUsers
PostIds == 1..MaxPosts
Salts == 1..NumSalts

\* ----------------------------------------------------------------- strings
\* Usernames are sequences of characters, so that str.lower() is computed.
Alice == <<"a", "l", "i", "c", "e">>
Raaz == <<"R", "a", "a", "z">>
RAAZ == <<"R", "A", "A", "Z">>
raaz == <<"r", "a", "a", "z">>
NoName == <<>>

Usernames == {Alice, Raaz, RAAZ, raaz}
Passwords == {"pw1", "2570"}

LowerChar(c) ==
    CASE c = "R" -> "r"
      [] c = "A" -> "a"
      [] c = "Z" -> "z"
      [] OTHER -> c

Lower(s) == [i \in DOMAIN s |-> LowerChar(s[i])]

\* ------------------------------------------------------------------ bcrypt
\* passlib's bcrypt: the hash carries its salt; verify re-hashes with it.
Bcrypt(password, salt) == <<"bcrypt", salt, password>>

get_password_hash(password, salt) == [salt |-> salt, digest |-> Bcrypt(password, salt)]

verify_password(plain, hashed) == Bcrypt(plain, hashed.salt) = hashed.digest

\* --------------------------------------------------------------------- JWT
SECRET_KEY == "Raaz-Master-Key-2026"
AttackerKey == "attacker-key"

\* HS256: a MAC of the payload under the key.
Sign(payload, key) == [key |-> key, over |-> payload]

Jwt(payload, sig) == [kind |-> "jwt", payload |-> payload, sig |-> sig]

NoToken == [kind |-> "none"]
Absent == [kind |-> "absent"]          \* no Authorization header
Malformed == [kind |-> "malformed"]    \* a bearer string that is no JWS

create_access_token(data, t) ==
    LET to_encode == data @@ [exp |-> t + TokenLifetime]
    IN  Jwt(to_encode, Sign(to_encode, SECRET_KEY))

JWTError == [ok |-> FALSE]

\* Variant: decode that does not verify the signature.
jwt_decodeNoSignature(token, key, t) ==
    IF token.kind # "jwt" THEN JWTError
    ELSE IF "exp" \in DOMAIN token.payload /\ token.payload.exp < t THEN JWTError
    ELSE [ok |-> TRUE, payload |-> token.payload]

\* Variant: decode that does not validate exp.
jwt_decodeNoExpiry(token, key, t) ==
    IF token.kind # "jwt" THEN JWTError
    ELSE IF token.sig # Sign(token.payload, key) THEN JWTError
    ELSE [ok |-> TRUE, payload |-> token.payload]

\* jose.jwt.decode: the signature first, then the exp claim (exp < now fails).
jwt_decode(token, key, t) ==
    IF token.kind # "jwt" THEN JWTError
    ELSE IF token.sig # Sign(token.payload, key) THEN JWTError
    ELSE IF "exp" \in DOMAIN token.payload /\ token.payload.exp < t THEN JWTError
    ELSE [ok |-> TRUE, payload |-> token.payload]

NoUser == [username |-> NoName, role |-> "None"]

Rejected(status, detail) == [status |-> status, detail |-> detail, user |-> NoUser]

\* oauth2_scheme (401 without a bearer header), then get_current_user.
get_current_user(token, t) ==
    IF token.kind = "absent" THEN Rejected(401, "Not authenticated")
    ELSE LET decoded == jwt_decode(token, SECRET_KEY, t)
         IN  IF ~decoded.ok THEN Rejected(401, "Invalid or expired token")
             ELSE IF "sub" \notin DOMAIN decoded.payload THEN Rejected(401, "")
             ELSE [status |-> 200, detail |-> "",
                   user |-> [username |-> decoded.payload.sub,
                             role |-> IF "role" \in DOMAIN decoded.payload
                                      THEN decoded.payload.role ELSE "None"]]

\* ------------------------------------------------------------------- state
VARIABLES
    users,        \* collection "users": documents [id, username, password_hash]
    posts,        \* collection "posts": documents [id, title, owner]
    config,       \* document app_settings/main, or NoDoc
    now,          \* the clock, in ticks
    issued,       \* the tokens login has returned
    pc,           \* per worker: "idle", "reg_add" or "cfg_list"
    frame,        \* per worker: the locals of the handler it is in
    registered,   \* history: the <<username, password>> pairs register accepted
    adminWrites,  \* history: the configs update_app_settings has written
    last          \* the step just taken and the response it produced

vars == <<users, posts, config, now, issued, pc, frame, registered, adminWrites, last>>

stores == <<users, posts, config>>

NoDoc == [kind |-> "absent"]
NoCfg == [kind |-> "none"]

default_cfg ==
    [maintenance |-> FALSE, version |-> "1.0.0", update_url |-> "https://playstore.com",
     night_mode |-> TRUE, security_check |-> "Safe"]

\* The form values an admin submits.
CfgInputs ==
    {default_cfg, [default_cfg EXCEPT !.maintenance = TRUE, !.version = "2.0.0"]}

NoSnapshot == [exists |-> FALSE, data |-> NoCfg, read |-> FALSE]
NoFrame == [username |-> NoName, password |-> "", snapshot |-> NoSnapshot]

Event(op, proc, status, detail) ==
    [op |-> op, proc |-> proc, status |-> status, detail |-> detail,
     username |-> NoName, password |-> "", role |-> "None",
     token |-> NoToken, cfg |-> NoCfg, post_id |-> 0, snapshot |-> NoSnapshot]

\* The collections outlive the process (line 29 opens the existing database):
\* the service starts on an empty "users" collection or on one that an earlier
\* run of register has filled.
UserStoresAtStart ==
    {{}, {[id |-> 1, username |-> Alice, password_hash |-> get_password_hash("pw1", 1)]}}

Init ==
    /\ users \in UserStoresAtStart
    /\ posts = {}
    /\ config = NoDoc
    /\ now = 0
    /\ issued = {}
    /\ pc = [p \in Procs |-> "idle"]
    /\ frame = [p \in Procs |-> NoFrame]
    /\ registered = IF users = {} THEN {} ELSE {<<Alice, "pw1">>}
    /\ adminWrites = {}
    /\ last = Event("start", 0, 0, "")

\* ------------------------------------------------------------ the user store
\* users_ref.where("username", "==", username).stream()
UsersWhere(username) == {d \in users : d.username = username}

\* The first document of a query: Firestore orders by document id.
First(docs) == CHOOSE d \in docs : \A e \in docs : d.id <= e.id

FreeDocIds == DocIds \ {d.id : d \in users}

Pending == {p \in Procs : pc[p] = "reg_add"}

\* ---------------------------------------------------------------- register
IsReserved(username) == Lower(username) = raaz

\* Variant: register without the query of line 101.
RegisterCheckNoDuplicateTest(p, username, password) ==
    /\ pc[p] = "idle"
    /\ IF IsReserved(username)
       THEN /\ last' = [Event("register", p, 400, "Master username is reserved")
                            EXCEPT !.username = username, !.password = password]
            /\ UNCHANGED <<pc, frame>>
       ELSE /\ Cardinality(users) + Cardinality(Pending) < MaxUsers
            /\ pc' = [pc EXCEPT ![p] = "reg_add"]
            /\ frame' = [frame EXCEPT ![p] = [NoFrame EXCEPT !.username = username,
                                                            !.password = password]]
            /\ last' = [Event("register", p, 0, "")
                            EXCEPT !.username = username, !.password = password]
    /\ UNCHANGED <<users, posts, config, now, issued, registered, adminWrites>>

\* Variant: register without the reserved-name test of line 99.
RegisterCheckNoReservedTest(p, username, password) ==
    /\ pc[p] = "idle"
    /\ IF UsersWhere(username) # {}
       THEN /\ last' = [Event("register", p, 400, "Username already exists")
                            EXCEPT !.username = username, !.password = password]
            /\ UNCHANGED <<pc, frame>>
       ELSE /\ Cardinality(users) + Cardinality(Pending) < MaxUsers
            /\ pc' = [pc EXCEPT ![p] = "reg_add"]
            /\ frame' = [frame EXCEPT ![p] = [NoFrame EXCEPT !.username = username,
                                                            !.password = password]]
            /\ last' = [Event("register", p, 0, "")
                            EXCEPT !.username = username, !.password = password]
    /\ UNCHANGED <<users, posts, config, now, issued, registered, adminWrites>>

\* Lines 99-102: the reserved-name test, then the query of the collection.
RegisterCheck(p, username, password) ==
    /\ pc[p] = "idle"
    /\ IF IsReserved(username)
       THEN /\ last' = [Event("register", p, 400, "Master username is reserved")
                            EXCEPT !.username = username, !.password = password]
            /\ UNCHANGED <<pc, frame>>
       ELSE IF UsersWhere(username) # {}
       THEN /\ last' = [Event("register", p, 400, "Username already exists")
                            EXCEPT !.username = username, !.password = password]
            /\ UNCHANGED <<pc, frame>>
       ELSE /\ Cardinality(users) + Cardinality(Pending) < MaxUsers
            /\ pc' = [pc EXCEPT ![p] = "reg_add"]
            /\ frame' = [frame EXCEPT ![p] = [NoFrame EXCEPT !.username = username,
                                                            !.password = password]]
            /\ last' = [Event("register", p, 0, "")
                            EXCEPT !.username = username, !.password = password]
    /\ UNCHANGED <<users, posts, config, now, issued, registered, adminWrites>>

\* Lines 104-105: add the document (a fresh auto-id), answer 200.
RegisterAdd(p) ==
    /\ pc[p] = "reg_add"
    /\ \E id \in FreeDocIds, salt \in Salts :
          users' = users \cup
              {[id |-> id, username |-> frame[p].username,
                password_hash |-> get_password_hash(frame[p].password, salt)]}
    /\ registered' = registered \cup {<<frame[p].username, frame[p].password>>}
    /\ last' = [Event("register", p, 200, "User registered! You can now login.")
                    EXCEPT !.username = frame[p].username, !.password = frame[p].password]
    /\ pc' = [pc EXCEPT ![p] = "idle"]
    /\ frame' = [frame EXCEPT ![p] = NoFrame]
    /\ UNCHANGED <<posts, config, now, issued, adminWrites>>

\* ------------------------------------------------------------------- login
MayIssue(token) == token \in issued \/ Cardinality(issued) < MaxTokens

\* Variant: a store user's token with the admin role.
StoreUserRoleAdmin == "admin"

\* The role claim of a store user's token (line 118).
StoreUserRole == "user"

\* Lines 108-118.
Login(username, password) ==
    /\ IF username = Raaz /\ password = "2570"
       THEN LET token == create_access_token([sub |-> Raaz, role |-> "admin"], now)
            IN  /\ MayIssue(token)
                /\ issued' = issued \cup {token}
                /\ last' = [Event("login", 0, 200, "") EXCEPT !.username = username,
                               !.password = password, !.token = token]
       ELSE LET users_ref == UsersWhere(username)
            IN  IF users_ref = {}
                   \/ ~verify_password(password, First(users_ref).password_hash)
                THEN /\ last' = [Event("login", 0, 401, "Wrong credentials")
                                    EXCEPT !.username = username, !.password = password]
                     /\ UNCHANGED issued
                ELSE LET token == create_access_token(
                                      [sub |-> username, role |-> StoreUserRole], now)
                     IN  /\ MayIssue(token)
                         /\ issued' = issued \cup {token}
                         /\ last' = [Event("login", 0, 200, "")
                                        EXCEPT !.username = username,
                                               !.password = password, !.token = token]
    /\ UNCHANGED <<users, posts, config, now, pc, frame, registered, adminWrites>>

\* ------------------------------------------------------------------- clock
Tick ==
    /\ now < MaxTime
    /\ now' = now + 1
    /\ last' = Event("tick", 0, 0, "")
    /\ UNCHANGED <<users, posts, config, issued, pc, frame, registered, adminWrites>>

\* ------------------------------------------------- what a client may present
FarFuture == MaxTime + TokenLifetime + 1

\* Tokens made without the server's key: signed with another key, or an issued
\* token whose payload was changed while its signature was kept.
Forgeries ==
    {Jwt(p, Sign(p, AttackerKey)) :
        p \in {[sub |-> Raaz, role |-> "admin", exp |-> FarFuture],
               [role |-> "admin", exp |-> FarFuture]}}
    \cup {[t EXCEPT !.payload.role = "admin"] : t \in issued}
    \cup {[t EXCEPT !.payload.exp = FarFuture] : t \in issued}

Presentable == issued \cup Forgeries \cup {Absent, Malformed}

Respond(op, token, auth, status, detail) ==
    [Event(op, 0, status, detail) EXCEPT !.token = token,
        !.username = auth.user.username, !.role = auth.user.role]

\* ------------------------------------------------------------------- posts
FreePostIds == PostIds \ {d.id : d \in posts}

\* Lines 126-131.  description, image_url, category and date are copied into
\* the document as given and read by nothing here.
PublishPost(token, title) ==
    LET user == get_current_user(token, now)
    IN  /\ IF user.status # 200
           THEN /\ last' = Respond("publish_post", token, user, user.status, user.detail)
                /\ UNCHANGED posts
           ELSE /\ \E id \in FreePostIds :
                      posts' = posts \cup
                          {[id |-> id, title |-> title, owner |-> user.user.username]}
                /\ last' = Respond("publish_post", token, user, 200,
                                   "Post Published Successfully!")
        /\ UNCHANGED <<users, config, now, issued, pc, frame, registered, adminWrites>>

\* Variant: delete_post deleting before it tests the role.
DeletePostBeforeRoleTest(token, post_id) ==
    LET user == get_current_user(token, now)
    IN  /\ IF user.status # 200
           THEN /\ last' = Respond("delete_post", token, user, user.status, user.detail)
                /\ UNCHANGED posts
           ELSE /\ posts' = {d \in posts : d.id # post_id}
                /\ IF user.user.role # "admin"
                   THEN last' = [Respond("delete_post", token, user, 403,
                                         "Only Master Raaz can delete posts")
                                     EXCEPT !.post_id = post_id]
                   ELSE last' = [Respond("delete_post", token, user, 200,
                                         "Post Deleted from Firebase")
                                     EXCEPT !.post_id = post_id]
        /\ UNCHANGED <<users, config, now, issued, pc, frame, registered, adminWrites>>

\* Lines 133-138.
DeletePost(token, post_id) ==
    LET user == get_current_user(token, now)
    IN  /\ IF user.status # 200
           THEN /\ last' = Respond("delete_post", token, user, user.status, user.detail)
                /\ UNCHANGED posts
           ELSE IF user.user.role # "admin"
           THEN /\ last' = [Respond("delete_post", token, user, 403,
                                    "Only Master Raaz can delete posts")
                                EXCEPT !.post_id = post_id]
                /\ UNCHANGED posts
           ELSE /\ posts' = {d \in posts : d.id # post_id}
                /\ last' = [Respond("delete_post", token, user, 200,
                                    "Post Deleted from Firebase")
                                EXCEPT !.post_id = post_id]
        /\ UNCHANGED <<users, config, now, issued, pc, frame, registered, adminWrites>>

\* ------------------------------------------------------------ app settings
\* Lines 181-190: one set() of the whole document.
UpdateAppSettings(token, new_cfg) ==
    LET user == get_current_user(token, now)
    IN  /\ IF user.status # 200
           THEN /\ last' = Respond("update_app_settings", token, user,
                                   user.status, user.detail)
                /\ UNCHANGED <<config, adminWrites>>
           ELSE IF user.user.role # "admin"
           THEN /\ last' = Respond("update_app_settings", token, user, 403,
                                   "Access Denied")
                /\ UNCHANGED <<config, adminWrites>>
           ELSE /\ config' = new_cfg
                /\ adminWrites' = adminWrites \cup {new_cfg}
                /\ last' = [Respond("update_app_settings", token, user, 200,
                                    "Settings Updated Live!") EXCEPT !.cfg = new_cfg]
        /\ UNCHANGED <<users, posts, now, issued, pc, frame, registered>>

\* document("main").get(): a DocumentSnapshot.
DocumentGet(doc) ==
    [exists |-> doc # NoDoc, data |-> IF doc = NoDoc THEN NoCfg ELSE doc, read |-> TRUE]

\* Line 163, the store read.
GetAppSettingsRead(p) ==
    /\ pc[p] = "idle"
    /\ pc' = [pc EXCEPT ![p] = "cfg_list"]
    /\ frame' = [frame EXCEPT ![p] = [NoFrame EXCEPT !.snapshot = DocumentGet(config)]]
    /\ last' = Event("get_app_settings", p, 0, "")
    /\ UNCHANGED <<users, posts, config, now, issued, registered, adminWrites>>

\* Variant: list() yielding the documents read, as lines 168-179 expect.
PyListOfSnapshotAsDocuments(snapshot) ==
    [raised |-> FALSE, value |-> IF snapshot.exists THEN <<snapshot.data>> ELSE <<>>]

\* list(x): a DocumentSnapshot defines neither __iter__ nor __getitem__, so
\* list() of it raises TypeError.
PyListOfSnapshot(snapshot) == [raised |-> TRUE, value |-> <<>>]

\* Lines 163-179 after the read: list(...), the default document, the answer.
\* docs is a list, and a list has no to_dict (line 179).
GetAppSettingsRest(p) ==
    /\ pc[p] = "cfg_list"
    /\ LET docs == PyListOfSnapshot(frame[p].snapshot)
       IN  IF docs.raised
           THEN /\ last' = [Event("get_app_settings", p, 500, "TypeError")
                                EXCEPT !.snapshot = frame[p].snapshot]
                /\ UNCHANGED config
           ELSE IF docs.value = <<>>
           THEN /\ config' = default_cfg
                /\ last' = [Event("get_app_settings", p, 200, "")
                                EXCEPT !.cfg = default_cfg,
                                       !.snapshot = frame[p].snapshot]
           ELSE /\ last' = [Event("get_app_settings", p, 500, "AttributeError")
                                EXCEPT !.snapshot = frame[p].snapshot]
                /\ UNCHANGED config
    /\ pc' = [pc EXCEPT ![p] = "idle"]
    /\ frame' = [frame EXCEPT ![p] = NoFrame]
    /\ UNCHANGED <<users, posts, now, issued, registered, adminWrites>>

\* ---------------------------------------------------------- specifications
Register == \E p \in Procs, u \in Usernames, pw \in Passwords : RegisterCheck(p, u, pw)

RegisterStore == \E p \in Procs : RegisterAdd(p)

LoginRequest == \E u \in Usernames, pw \in Passwords : Login(u, pw)

Publish == \E token \in Presentable : PublishPost(token, "t")

Delete == \E token \in Presentable, post_id \in PostIds : DeletePost(token, post_id)

UpdateSettings == \E token \in Presentable, cfg \in CfgInputs : UpdateAppSettings(token, cfg)

ReadSettings == \E p \in Procs : GetAppSettingsRead(p)

AnswerSettings == \E p \in Procs : GetAppSettingsRest(p)

\* register and login against the user store
NextUsers == Register \/ RegisterStore \/ LoginRequest

SpecUsers == Init /\ [][NextUsers]_vars

\* the gate in front of the protected handlers, with the clock
NextGate == LoginRequest \/ Tick \/ Publish \/ Delete \/ UpdateSettings

SpecGate == Init /\ [][NextGate]_vars

\* the app-settings singleton: readers and the admin writer
NextCfg == LoginRequest \/ UpdateSettings \/ ReadSettings \/ AnswerSettings

SpecCfg == Init /\ [][NextCfg]_vars

Next ==
    \/ Register \/ RegisterStore \/ LoginRequest \/ Tick
    \/ Publish \/ Delete \/ UpdateSettings \/ ReadSettings \/ AnswerSettings

Spec == Init /\ [][Next]_vars

\* ------------------------------------------------------------------ claims
ProtectedOps == {"publish_post", "delete_post", "update_app_settings"}

ElevatedOps == {"delete_post", "update_app_settings"}

\* C1: a register for an identity the store already holds is answered 400
\* "Username already exists" and changes nothing in the user store.
C1_DuplicateRegisterRejected ==
    [][(/\ last'.op = "register"
        /\ last'.proc \in Procs
        /\ pc[last'.proc] = "idle"
        /\ UsersWhere(last'.username) # {})
       => (/\ last'.status = 400
           /\ last'.detail = "Username already exists"
           /\ users' = users
           /\ registered' = registered
           /\ pc'[last'.proc] = "idle")]_vars

C1_Witness ==
    /\ last.op = "register"
    /\ last.status = 400
    /\ last.detail = "Username already exists"
    /\ UsersWhere(last.username) # {}
    /\ <<last.username, last.password>> \notin registered

\* C2: no two documents of the user store carry the same username, whatever
\* the interleaving of register requests.
C2_UniqueIdentity ==
    \A d \in users : \A e \in users : d.username = e.username => d = e

\* C3: login succeeds, with a token whose subject is the identity, exactly for
\* the identity/secret pairs register has accepted; any other login is
\* answered 401 and returns no token.
C3_LoginMatchesRegistered ==
    last.op = "login" =>
        IF <<last.username, last.password>> \in registered
        THEN /\ last.status = 200
             /\ last.token.kind = "jwt"
             /\ last.token.payload.sub = last.username
        ELSE /\ last.status = 401
             /\ last.token = NoToken

\* C4: a token login issued is accepted, as its subject, at every time before
\* its exp and rejected with 401 at every time after it; once rejected it is
\* never accepted again.
C4_AcceptedUntilExpiry ==
    /\ \A t \in issued :
          LET r == get_current_user(t, now)
          IN  /\ now < t.payload.exp =>
                    r.status = 200 /\ r.user.username = t.payload.sub
              /\ now > t.payload.exp => r.status = 401
    /\ (last.op \in ProtectedOps /\ last.token \in issued) =>
          /\ now < last.token.payload.exp =>
                last.status # 401 /\ last.username = last.token.payload.sub
          /\ now > last.token.payload.exp => last.status = 401

NoSubjectTokens ==
    {Jwt(p, Sign(p, SECRET_KEY)) :
        p \in {[role |-> "admin", exp |-> FarFuture], [exp |-> FarFuture]}}

\* C5: a token login did not issue (forged, tampered, malformed, absent) or
\* one without a subject is answered 401, and no identity or role of it
\* reaches a protected handler.
C5_FailsClosed ==
    /\ \A h \in (Presentable \ issued) \cup NoSubjectTokens :
          get_current_user(h, now) = Rejected(401, get_current_user(h, now).detail)
    /\ (last.op \in ProtectedOps /\ last.token \notin issued) =>
          /\ last.status = 401
          /\ last.username = NoName
          /\ last.role = "None"

C5_Witness ==
    /\ last.op = "delete_post"
    /\ last.token \notin issued
    /\ last.token.kind = "jwt"
    /\ last.token.sig.key = SECRET_KEY
    /\ last.token.payload.role = "admin"
    /\ last.status = 401

\* C6: delete_post and update_app_settings are carried out only for the
\* verified identity "Raaz"; a valid token of another identity gets 403.
C6_OnlyRaazElevated ==
    last.op \in ElevatedOps =>
        /\ last.status = 200 =>
              /\ last.username = Raaz
              /\ last.token \in issued
              /\ last.token.payload.sub = Raaz
        /\ (/\ last.token \in issued
            /\ now <= last.token.payload.exp
            /\ last.token.payload.sub # Raaz) => last.status = 403

C6_Witness ==
    /\ last.op = "delete_post"
    /\ last.status = 403
    /\ last.username = Alice
    /\ last.token \in issued

\* C7: get_app_settings answers 200; when it read no document it stores and
\* returns the defaults, otherwise it returns the document it read and leaves
\* the store alone.
C7_LazyDefault ==
    [][(/\ last'.op = "get_app_settings"
        /\ last'.proc \in Procs
        /\ pc[last'.proc] = "cfg_list")
       => LET snapshot == frame[last'.proc].snapshot
          IN  IF ~snapshot.exists
              THEN /\ last'.status = 200
                   /\ last'.cfg = default_cfg
                   /\ config' = default_cfg
              ELSE /\ last'.status = 200
                   /\ last'.cfg = snapshot.data
                   /\ config' = config]_vars

C9_RejectedHasNoEffect ==
    [][(\/ last'.op \in ProtectedOps /\ last'.status \in {401, 403}
        \/ last'.op = "login" /\ last'.status = 401)
       => UNCHANGED stores]_vars

C9_Witness ==
    /\ last.op = "delete_post"
    /\ last.status = 403
    /\ last.post_id \in {d.id : d \in posts}

\* C10: no user document has a username equal to "raaz" ignoring case; register
\* answers 400 for such a name and stores nothing; only login("Raaz", "2570")
\* gets a token with role admin, every other token has role user, and
\* login("Raaz", s) with another s is answered 401.
C10_ReservedState ==
    /\ \A d \in users : Lower(d.username) # raaz
    /\ \A t \in issued : t.payload.role = "admin" <=> t.payload.sub = Raaz
    /\ \A t \in issued : t.payload.role \in {"admin", "user"}
    /\ (last.op = "register" /\ Lower(last.username) = raaz) =>
          last.status = 400 /\ last.detail = "Master username is reserved"
    /\ (last.op = "login" /\ last.status = 200) =>
          IF last.username = Raaz /\ last.password = "2570"
          THEN last.token.payload.role = "admin"
          ELSE last.token.payload.role = "user"
    /\ (last.op = "login" /\ last.username = Raaz /\ last.password # "2570") =>
          last.status = 401 /\ last.token = NoToken

C10_PrivilegedIdentityReserved ==
    /\ []C10_ReservedState
    /\ [][(last'.op = "register" /\ Lower(last'.username) = raaz)
            => UNCHANGED <<users, registered, pc, frame>>]_vars

C10_Witness ==
    /\ last.op = "register"
    /\ last.username = RAAZ
    /\ last.status = 400
    /\ \E t \in issued : t.payload.role = "admin"

====
